---------------------------- MODULE Spec2Model ----------------------------
(***************************************************************************)
(* A model of comb.py, a parser-combinator library.                        *)
(*                                                                         *)
(* A text (Input.s) is a sequence of one-character strings.  A cursor is   *)
(* the pair (s, i); every cursor of one parse shares the text s, so a      *)
(* cursor is carried as its offset i beside the text.                      *)
(*                                                                         *)
(* A Parser is a term: the closure `parse` a constructor returns, with the *)
(* parsers it closed over as kids.  Calling a parser gives an outcome:     *)
(*   k = "ok"     the success pair (v, Input(s, i))                         *)
(*   k = "None"   the function fell off its end / `return`                  *)
(*   k = "False"  the value False (Parser.negate's failing branch)          *)
(*   k = "raise"  an exception left the call                                *)
(*   k = "loop"   the call never returns (a while loop that repeats the     *)
(*                same cursor for ever)                                     *)
(***************************************************************************)
EXTENDS Integers, Sequences, FiniteSets, TLC

VARIABLES
    s,      \* Input.s, the text being parsed
    i,      \* Input.i, the offset of the cursor handed to the call
    ps,     \* the parsers built so far (a stack, newest last)
    nops,   \* number of constructor calls made
    ctor,   \* the last constructor called
    args,   \* its operands
    r,      \* the outcome of the call
    o,      \* a second cursor or span (operand of span())
    sp,     \* the last Span built by span()
    lit,    \* the literal of the tag under test
    shape,  \* how the text of a separated list was put together
    pc      \* "build" while the grammar is built, then the step done last

vars == <<s, i, ps, nops, ctor, args, r, o, sp, lit, shape, pc>>

-----------------------------------------------------------------------------
(* Bounds *)

MaxLen == 3        \* longest text
MaxOps == 3        \* constructor calls per grammar
MaxStack == 2      \* parsers held at once
MaxPow == 2        \* largest n of p ** n
MaxLit == 2        \* longest literal of the tag under test
MaxK == 3          \* most elements of a separated list under test

Chars == {"x", ",", " "}

RECURSIVE Texts(_)
Texts(n) ==
    IF n = 0 THEN {<<>>}
    ELSE LET T == Texts(n - 1)
         IN  T \cup {Append(t, c) : t \in {u \in T : Len(u) = n - 1}, c \in Chars}

Min(a, b) == IF a <= b THEN a ELSE b
Max(a, b) == IF a >= b THEN a ELSE b

-----------------------------------------------------------------------------
(* Python values.  One record shape for all of them, so any two compare.  *)

PyNone == [t |-> "None", str |-> <<>>, xs |-> <<>>, i |-> 0, j |-> 0]
PyStr(m) == [t |-> "str", str |-> m, xs |-> <<>>, i |-> 0, j |-> 0]
PyList(xs) == [t |-> "list", str |-> <<>>, xs |-> xs, i |-> 0, j |-> 0]
PyTuple(xs) == [t |-> "tuple", str |-> <<>>, xs |-> xs, i |-> 0, j |-> 0]

\* Span(s, i, j); s is the text of the parse
Span(a, b) == [t |-> "Span", str |-> <<>>, xs |-> <<>>, i |-> a, j |-> b]

\* Input(s, i) as an operand of span()
Input(a) == [t |-> "Input", str |-> <<>>, xs |-> <<>>, i |-> a, j |-> 0]

\* text[a:b] of Python: indices clipped to the text, empty when a >= b
Slice(text, a, b) ==
    LET lo == Min(a, Len(text))
        hi == Min(b, Len(text))
    IN  IF lo >= hi THEN <<>> ELSE SubSeq(text, lo + 1, hi)

\* Input.__bool__
Input_bool(text, a) == a < Len(text)

\* Input.curr(n)
curr(text, a, n) == Slice(text, a, a + n)

\* Input.advance(n)
advance(a, n) == a + n

\* Input.span(other): reads other.i whatever other is
Input_span(a, other) == Span(a, other.i)

\* Span.content()
content(text, span) == Slice(text, span.i, span.j)

\* Span.span(other); TypeError is the outcome "raise"
Span_span(self, other) ==
    IF other.t = "Span"
    THEN [k |-> "ok", v |-> Span(Min(self.i, other.i), Max(self.j, other.j))]
    ELSE IF other.t = "Input"
    THEN [k |-> "ok", v |-> Span(Min(self.i, other.i), Max(self.j, other.i))]
    ELSE [k |-> "raise", v |-> PyNone]

-----------------------------------------------------------------------------
(* Outcomes of a call *)

Ok(v, a) == [k |-> "ok", v |-> v, i |-> a]
RNone == [k |-> "None", v |-> PyNone, i |-> 0]
RFalse == [k |-> "False", v |-> PyNone, i |-> 0]
Raise == [k |-> "raise", v |-> PyNone, i |-> 0]
Loop == [k |-> "loop", v |-> PyNone, i |-> 0]

\* bool(r) of a returned value: a pair is truthy, None and False are not
Truthy(res) == res.k = "ok"
Falsy(res) == res.k \in {"None", "False"}
\* the call did not return
Aborts(res) == res.k \in {"raise", "loop"}

-----------------------------------------------------------------------------
(* The functions handed to map and pred *)

IsSpace(c) == c = " "
IsAlpha(c) == c = "x"

\* f(x) of Parser.map; ok = FALSE when it raises
ApplyF(f, x) ==
    CASE f \in {"index0", "index1"} ->
            LET n == IF f = "index0" THEN 1 ELSE 2
            IN  IF x.t \in {"tuple", "list"} /\ n <= Len(x.xs)
                THEN [ok |-> TRUE, v |-> x.xs[n]]
                ELSE IF x.t = "str" /\ n <= Len(x.str)
                THEN [ok |-> TRUE, v |-> PyStr(<<x.str[n]>>)]
                ELSE [ok |-> FALSE, v |-> PyNone]
      [] f = "spanfirst" ->
            \* lambda x: (x[1], *x[0]) of seqspanned
            IF x.t = "tuple" /\ Len(x.xs) >= 2 /\ x.xs[1].t \in {"tuple", "list"}
            THEN [ok |-> TRUE, v |-> PyTuple(<<x.xs[2]>> \o x.xs[1].xs)]
            ELSE [ok |-> FALSE, v |-> PyNone]
      [] OTHER -> [ok |-> FALSE, v |-> PyNone]

\* bool(p(x)) of Parser.pred; ok = FALSE when it raises
ApplyP(f, x) ==
    CASE f = "len" ->
            IF x.t \in {"tuple", "list"} THEN [ok |-> TRUE, v |-> Len(x.xs) > 0]
            ELSE IF x.t = "str" THEN [ok |-> TRUE, v |-> Len(x.str) > 0]
            ELSE [ok |-> FALSE, v |-> FALSE]
      [] f = "isspace" ->
            IF x.t = "str"
            THEN [ok |-> TRUE,
                  v |-> Len(x.str) > 0 /\ \A n \in 1..Len(x.str) : IsSpace(x.str[n])]
            ELSE [ok |-> FALSE, v |-> FALSE]
      [] f = "isalpha" ->
            IF x.t = "str"
            THEN [ok |-> TRUE,
                  v |-> Len(x.str) > 0 /\ \A n \in 1..Len(x.str) : IsAlpha(x.str[n])]
            ELSE [ok |-> FALSE, v |-> FALSE]
      [] OTHER -> [ok |-> FALSE, v |-> FALSE]

-----------------------------------------------------------------------------
(* Parsers.  A term names the closure and what it closed over: m, the      *)
(* literal of tag; f, the function of map and pred; kids, the parsers.     *)

Node(op, m, f, kids) == [op |-> op, m |-> m, f |-> f, kids |-> kids]

RECURSIVE Run(_, _, _)

\* Parser.__call__ with a cursor: self.f(s)
Call(p, text, a) == Run(p, text, a)

\* tag(m).parse comparing only the characters the text still has
parse_tag_short(m, text, a) ==
    IF curr(text, a, Len(m)) = SubSeq(m, 1, Len(curr(text, a, Len(m))))
    THEN Ok(PyStr(m), advance(a, Len(m)))
    ELSE RNone

\* tag(m).parse
parse_tag(m, text, a) ==
    IF curr(text, a, Len(m)) = m
    THEN Ok(PyStr(m), advance(a, Len(m)))
    ELSE RNone

\* one without the test `if s`
parse_one_unchecked(text, a) == Ok(PyStr(curr(text, a, 1)), advance(a, 1))

\* one
parse_one(text, a) ==
    IF Input_bool(text, a)
    THEN Ok(PyStr(curr(text, a, 1)), advance(a, 1))
    ELSE RNone

\* Parser.__add__.parse with the operands swapped: other(s) or self(s)
parse_add_swapped(self, other, text, a) ==
    LET r2 == Call(other, text, a)
    IN  IF Aborts(r2) \/ Truthy(r2) THEN r2 ELSE Call(self, text, a)

\* Parser.__add__.parse: self(s) or other(s)
parse_add(self, other, text, a) ==
    LET r1 == Call(self, text, a)
    IN  IF Aborts(r1) \/ Truthy(r1) THEN r1 ELSE Call(other, text, a)

\* Parser.__mul__.parse
parse_mul(self, other, text, a) ==
    LET r1 == Call(self, text, a)
    IN  IF Aborts(r1) THEN r1
        ELSE IF ~Truthy(r1) THEN RNone
        ELSE LET r2 == Call(other, text, r1.i)
             IN  IF Aborts(r2) THEN r2
                 ELSE IF ~Truthy(r2) THEN RNone
                 ELSE Ok(PyTuple(<<r1.v, r2.v>>), r2.i)

\* Parser.optional.parse: self(s) or (None, s)
parse_optional(self, text, a) ==
    LET r1 == Call(self, text, a)
    IN  IF Aborts(r1) \/ Truthy(r1) THEN r1 ELSE Ok(PyNone, a)

\* Parser.negate.parse without the `not`: self(s) and (None, s)
parse_negate_unnegated(self, text, a) ==
    LET r1 == Call(self, text, a)
    IN  IF Aborts(r1) THEN r1
        ELSE IF Truthy(r1) THEN Ok(PyNone, a)
        ELSE r1

\* Parser.negate.parse: (not self(s)) and (None, s)
parse_negate(self, text, a) ==
    LET r1 == Call(self, text, a)
    IN  IF Aborts(r1) THEN r1
        ELSE IF Truthy(r1) THEN RFalse
        ELSE Ok(PyNone, a)

\* Parser.map.parse
parse_map(self, f, text, a) ==
    LET r1 == Call(self, text, a)
    IN  IF Aborts(r1) THEN r1
        ELSE IF ~Truthy(r1) THEN RNone
        ELSE LET y == ApplyF(f, r1.v)
             IN  IF y.ok THEN Ok(y.v, r1.i) ELSE Raise

\* Parser.pred.parse
parse_pred(self, f, text, a) ==
    LET r1 == Call(self, text, a)
    IN  IF Aborts(r1) THEN r1
        ELSE IF ~Truthy(r1) THEN RNone
        ELSE LET y == ApplyP(f, r1.v)
             IN  IF ~y.ok THEN Raise
                 ELSE IF y.v THEN Ok(r1.v, r1.i)
                 ELSE RNone

\* Parser.spanned.parse
parse_spanned(self, text, a) ==
    LET r1 == Call(self, text, a)
    IN  IF Aborts(r1) THEN r1
        ELSE IF ~Truthy(r1) THEN RNone
        ELSE Ok(PyTuple(<<r1.v, Input_span(a, Input(r1.i))>>), r1.i)

\* Parser.stringed.parse
parse_stringed(self, text, a) ==
    LET r1 == Call(self, text, a)
    IN  IF Aborts(r1) THEN r1
        ELSE IF ~Truthy(r1) THEN RNone
        ELSE Ok(PyTuple(<<r1.v,
                          PyStr(content(text, Input_span(a, Input(r1.i))))>>),
                r1.i)

\* The while loop of Parser.many0.parse, entered at cursor a with xs
\* collected.  A round that succeeds at the cursor it started from repeats
\* for ever: the parser is a function of the cursor.
RECURSIVE many0_loop(_, _, _, _)
many0_loop(self, text, a, xs) ==
    LET r1 == Call(self, text, a)
    IN  IF Aborts(r1) THEN r1
        ELSE IF ~Truthy(r1) THEN Ok(PyList(xs), a)
        ELSE IF r1.i = a THEN Loop
        ELSE many0_loop(self, text, r1.i, Append(xs, r1.v))

\* Parser.many0.parse returning None for an empty list
parse_many0_nonempty(self, text, a) ==
    LET r1 == many0_loop(self, text, a, <<>>)
    IN  IF Truthy(r1) /\ r1.v.xs = <<>> THEN RNone ELSE r1

\* Parser.many0.parse
parse_many0(self, text, a) == many0_loop(self, text, a, <<>>)

\* The while loop of Parser.__getitem__.parse
RECURSIVE getitem_loop(_, _, _, _, _, _)
getitem_loop(self, other, text, a, xs, ys) ==
    LET r1 == Call(self, text, a)
    IN  IF Aborts(r1) THEN r1
        ELSE IF ~Truthy(r1) THEN Ok(PyTuple(<<PyList(xs), PyList(ys)>>), a)
        ELSE LET r2 == Call(other, text, r1.i)
             IN  IF Aborts(r2) THEN r2
                 ELSE IF ~Truthy(r2)
                 THEN Ok(PyTuple(<<PyList(Append(xs, r1.v)), PyList(ys)>>), r1.i)
                 ELSE IF r2.i = a THEN Loop
                 ELSE getitem_loop(self, other, text, r2.i,
                                   Append(xs, r1.v), Append(ys, r2.v))

\* Parser.__getitem__.parse dropping a separator no element follows
parse_getitem_no_trailing(self, other, text, a) ==
    LET r1 == getitem_loop(self, other, text, a, <<>>, <<>>)
    IN  IF Truthy(r1) /\ Len(r1.v.xs[2].xs) > 0
                      /\ Len(r1.v.xs[2].xs) = Len(r1.v.xs[1].xs)
        THEN Ok(PyTuple(<<r1.v.xs[1],
                          PyList(SubSeq(r1.v.xs[2].xs, 1, Len(r1.v.xs[2].xs) - 1))>>),
                r1.i)
        ELSE r1

\* Parser.__getitem__.parse
parse_getitem(self, other, text, a) == getitem_loop(self, other, text, a, <<>>, <<>>)

\* One step of the for loop of seq.parse on the outcome r1 of p(s):
\* `is not None` lets False through to the unpacking `x, s = r`, a TypeError
seq_step(r1) ==
    IF Aborts(r1) THEN r1
    ELSE IF r1.k = "None" THEN RNone
    ELSE IF r1.k = "False" THEN Raise
    ELSE r1

\* The for loop of seq.parse from its n-th parser
RECURSIVE seq_loop(_, _, _, _, _)
seq_loop(kids, n, text, a, xs) ==
    IF n > Len(kids) THEN Ok(PyTuple(xs), a)
    ELSE LET r1 == seq_step(Call(kids[n], text, a))
         IN  IF r1.k # "ok" THEN r1
             ELSE seq_loop(kids, n + 1, text, r1.i, Append(xs, r1.v))

\* seq.parse
parse_seq(kids, text, a) == seq_loop(kids, 1, text, a, <<>>)

Run(p, text, a) ==
    CASE p.op = "tag" -> parse_tag(p.m, text, a)
      [] p.op = "one" -> parse_one(text, a)
      [] p.op = "add" -> parse_add(p.kids[1], p.kids[2], text, a)
      [] p.op = "mul" -> parse_mul(p.kids[1], p.kids[2], text, a)
      [] p.op = "getitem" -> parse_getitem(p.kids[1], p.kids[2], text, a)
      [] p.op = "optional" -> parse_optional(p.kids[1], text, a)
      [] p.op = "many0" -> parse_many0(p.kids[1], text, a)
      [] p.op = "map" -> parse_map(p.kids[1], p.f, text, a)
      [] p.op = "pred" -> parse_pred(p.kids[1], p.f, text, a)
      [] p.op = "spanned" -> parse_spanned(p.kids[1], text, a)
      [] p.op = "stringed" -> parse_stringed(p.kids[1], text, a)
      [] p.op = "negate" -> parse_negate(p.kids[1], text, a)
      [] p.op = "seq" -> parse_seq(p.kids, text, a)

-----------------------------------------------------------------------------
(* The constructors *)

\* tag(m)
tag(m) == Node("tag", m, "", <<>>)

\* parser(other): a Parser as it is, a str as tag(other)
parser(other) == IF other.op = "str" THEN tag(other.m) ELSE other

\* the Parser `one`
one == Node("one", <<>>, "", <<>>)

__add__(self, other) == Node("add", <<>>, "", <<self, parser(other)>>)
__mul__(self, other) == Node("mul", <<>>, "", <<self, parser(other)>>)
__getitem__(self, other) == Node("getitem", <<>>, "", <<self, parser(other)>>)
optional(self) == Node("optional", <<>>, "", <<self>>)
many0(self) == Node("many0", <<>>, "", <<self>>)
map(self, f) == Node("map", <<>>, f, <<self>>)
Parser_pred(self, f) == Node("pred", <<>>, f, <<self>>)
spanned(self) == Node("spanned", <<>>, "", <<self>>)
stringed(self) == Node("stringed", <<>>, "", <<self>>)
negate(self) == Node("negate", <<>>, "", <<self>>)

\* seq(*ps)
seq(elems) == Node("seq", <<>>, "", [n \in 1..Len(elems) |-> parser(elems[n])])

\* Parser.__pow__(n), n >= 0
__pow__(self, n) == seq([k \in 1..n |-> self])

\* many1 without the filter
many1_unfiltered(self) == many0(self)

many1(self) == Parser_pred(many0(self), "len")
index(self, n) == map(self, IF n = 0 THEN "index0" ELSE "index1")
left(self) == index(self, 0)
right(self) == index(self, 1)
__lshift__(self, other) == left(__mul__(self, other))
__rshift__(self, other) == right(__mul__(self, other))
Parser_span(self) == right(spanned(self))
string(self) == right(stringed(self))

\* pred(p): one.pred(p)
pred(f) == Parser_pred(one, f)
alpha == pred("isalpha")
space == pred("isspace")
ws == many0(space)

__pos__(self) == __rshift__(ws, self)
__neg__(self) == __lshift__(self, ws)

\* seqws without the leading trim
seqws_no_leading(elems) == seq([n \in 1..Len(elems) |-> __neg__(parser(elems[n]))])

\* seqws(*ps): +seq(*(-parser(p) for p in ps))
seqws(elems) == __pos__(seq([n \in 1..Len(elems) |-> __neg__(parser(elems[n]))]))

\* seqspanned(*ps)
seqspanned(elems) == map(spanned(seqws(elems)), "spanfirst")

\* kw(m): +-tag(m).span()
kw(m) == __pos__(__neg__(Parser_span(tag(m))))

-----------------------------------------------------------------------------
(* Building a grammar and calling it *)

\* literals handed to tag and kw while a grammar is built
Lits == {<<>>, <<"x">>, <<",">>}

\* the outcome slot before any call
NotCalled == [k |-> "none yet", v |-> PyNone, i |-> 0]

\* the text of a separated list: k elements E, separators S between them,
\* and a last separator when trailing
NoShape == [E |-> <<>>, S |-> <<>>, k |-> 0, trailing |-> FALSE]

Init ==
    /\ s = <<>>
    /\ i = 0
    /\ ps = <<>>
    /\ nops = 0
    /\ ctor = ""
    /\ args = <<>>
    /\ r = NotCalled
    /\ o = Input(0)
    /\ sp = PyNone
    /\ lit = <<>>
    /\ shape = NoShape
    /\ pc = "build"

CanBuild == pc = "build" /\ nops < MaxOps

Top == ps[Len(ps)]
Under == ps[Len(ps) - 1]

\* a constructor without parser operands returned p
Leaf(name, p) ==
    /\ CanBuild
    /\ Len(ps) < MaxStack
    /\ ps' = Append(ps, p)
    /\ nops' = nops + 1
    /\ ctor' = name
    /\ args' = <<>>
    /\ UNCHANGED <<s, i, r, o, sp, lit, shape, pc>>

\* a method of the newest parser returned p
Unary(name, p) ==
    /\ ps' = [ps EXCEPT ![Len(ps)] = p]
    /\ nops' = nops + 1
    /\ ctor' = name
    /\ args' = <<Top>>
    /\ UNCHANGED <<s, i, r, o, sp, lit, shape, pc>>

\* an operator of the two newest parsers returned p
Binary(name, p) ==
    /\ ps' = Append(SubSeq(ps, 1, Len(ps) - 2), p)
    /\ nops' = nops + 1
    /\ ctor' = name
    /\ args' = <<Under, Top>>
    /\ UNCHANGED <<s, i, r, o, sp, lit, shape, pc>>

\* a function of all the parsers built, f(*ps), returned p
Nary(name, p) ==
    /\ ps' = <<p>>
    /\ nops' = nops + 1
    /\ ctor' = name
    /\ args' = ps
    /\ UNCHANGED <<s, i, r, o, sp, lit, shape, pc>>

Tag == \E m \in Lits : Leaf("tag", tag(m))
One == Leaf("one", one)
Alpha == Leaf("alpha", alpha)
Space == Leaf("space", space)
Kw == \E m \in Lits : Leaf("kw", kw(m))

Add == CanBuild /\ Len(ps) >= 2 /\ Binary("__add__", __add__(Under, Top))
Mul == CanBuild /\ Len(ps) >= 2 /\ Binary("__mul__", __mul__(Under, Top))
GetItem == CanBuild /\ Len(ps) >= 2 /\ Binary("__getitem__", __getitem__(Under, Top))
LShift == CanBuild /\ Len(ps) >= 2 /\ Binary("__lshift__", __lshift__(Under, Top))
RShift == CanBuild /\ Len(ps) >= 2 /\ Binary("__rshift__", __rshift__(Under, Top))

Pow == CanBuild /\ Len(ps) >= 1 /\ \E n \in 0..MaxPow : Unary("__pow__", __pow__(Top, n))
Pos == CanBuild /\ Len(ps) >= 1 /\ Unary("__pos__", __pos__(Top))
Neg == CanBuild /\ Len(ps) >= 1 /\ Unary("__neg__", __neg__(Top))
Optional == CanBuild /\ Len(ps) >= 1 /\ Unary("optional", optional(Top))
Many0 == CanBuild /\ Len(ps) >= 1 /\ Unary("many0", many0(Top))
Many1 == CanBuild /\ Len(ps) >= 1 /\ Unary("many1", many1(Top))
Left == CanBuild /\ Len(ps) >= 1 /\ Unary("left", left(Top))
Right == CanBuild /\ Len(ps) >= 1 /\ Unary("right", right(Top))
Spanned == CanBuild /\ Len(ps) >= 1 /\ Unary("spanned", spanned(Top))
SpanOf == CanBuild /\ Len(ps) >= 1 /\ Unary("span", Parser_span(Top))
Stringed == CanBuild /\ Len(ps) >= 1 /\ Unary("stringed", stringed(Top))
String == CanBuild /\ Len(ps) >= 1 /\ Unary("string", string(Top))
Negate == CanBuild /\ Len(ps) >= 1 /\ Unary("negate", negate(Top))

SeqAll == CanBuild /\ Nary("seq", seq(ps))
SeqWs == CanBuild /\ Nary("seqws", seqws(ps))
SeqSpanned == CanBuild /\ Nary("seqspanned", seqspanned(ps))

\* Input(text, a): the caller makes a cursor into a text for the grammar
Feed ==
    /\ pc = "build"
    /\ Len(ps) = 1
    /\ \E text \in Texts(MaxLen) : \E a \in 0..Len(text) :
        /\ s' = text
        /\ i' = a
    /\ pc' = "fed"
    /\ UNCHANGED <<ps, nops, ctor, args, r, o, sp, lit, shape>>

\* p(Input(s, i)) for the grammar p: no closure assigns to a field of the
\* cursor it is given, advance() makes a new one
Invoke ==
    /\ pc = "fed"
    /\ r' = Call(Top, s, i)
    /\ pc' = "called"
    /\ UNCHANGED <<s, i, ps, nops, ctor, args, o, sp, lit, shape>>

Next ==
    \/ Tag \/ One \/ Alpha \/ Space \/ Kw
    \/ Add \/ Mul \/ GetItem \/ LShift \/ RShift
    \/ Pow \/ Pos \/ Neg \/ Optional \/ Many0 \/ Many1
    \/ Left \/ Right \/ Spanned \/ SpanOf \/ Stringed \/ String \/ Negate
    \/ SeqAll \/ SeqWs \/ SeqSpanned
    \/ Feed \/ Invoke

Spec == Init /\ [][Next]_vars

\* p(Input(text, a)): the cursor made and the grammar called in one step
Parse ==
    /\ pc = "build"
    /\ Len(ps) = 1
    /\ \E text \in Texts(MaxLen) : \E a \in 0..Len(text) :
        /\ s' = text
        /\ i' = a
        /\ r' = Call(Top, text, a)
    /\ pc' = "called"
    /\ UNCHANGED <<ps, nops, ctor, args, o, sp, lit, shape>>

\* Grammars built from the primitives and from alternation, sequencing,
\* repetition and negation alone, which leaves room for deeper ones
NextCore ==
    \/ Tag \/ One \/ Space
    \/ Add \/ GetItem
    \/ Many0 \/ Many1 \/ Negate
    \/ SeqAll \/ SeqWs
    \/ Parse

SpecCore == Init /\ [][NextCore]_vars

-----------------------------------------------------------------------------
(* Cursors and spans: Input.advance, Input.span, Span.span *)

InitSpan ==
    /\ s \in Texts(MaxLen)
    /\ i = 0
    /\ ps = <<>>
    /\ nops = 0
    /\ ctor = ""
    /\ args = <<>>
    /\ r = NotCalled
    /\ o = Input(0)
    /\ sp = PyNone
    /\ lit = <<>>
    /\ shape = NoShape
    /\ pc = "cursor"

\* s = s.advance(): the cursor of a parse moves on, never past the text
Advance ==
    /\ i < Len(s)
    /\ i' = advance(i, 1)
    /\ UNCHANGED <<s, ps, nops, ctor, args, r, o, sp, lit, shape, pc>>

\* the operand is another cursor over the same text
OperandInput ==
    /\ \E a \in 0..Len(s) : o' = Input(a)
    /\ UNCHANGED <<s, i, ps, nops, ctor, args, r, sp, lit, shape, pc>>

\* the operand is the span built last
OperandSpan ==
    /\ sp.t = "Span"
    /\ o' = sp
    /\ UNCHANGED <<s, i, ps, nops, ctor, args, r, sp, lit, shape, pc>>

\* Input(s, i).span(o)
CursorSpan ==
    /\ sp' = Input_span(i, o)
    /\ ctor' = "Input.span"
    /\ args' = <<Input(i), o>>
    /\ pc' = "spanned"
    /\ UNCHANGED <<s, i, ps, nops, r, o, lit, shape>>

\* sp.span(o)
SpanSpan ==
    /\ sp.t = "Span"
    /\ Span_span(sp, o).k = "ok"
    /\ sp' = Span_span(sp, o).v
    /\ ctor' = "Span.span"
    /\ args' = <<sp, o>>
    /\ pc' = "spanned"
    /\ UNCHANGED <<s, i, ps, nops, r, o, lit, shape>>

NextSpan == Advance \/ OperandInput \/ OperandSpan \/ CursorSpan \/ SpanSpan

SpecSpan == InitSpan /\ [][NextSpan]_vars

-----------------------------------------------------------------------------
(* tag(lit) on every text and cursor *)

InitTag ==
    /\ s \in Texts(MaxLen)
    /\ lit \in Texts(MaxLit)
    /\ i = 0
    /\ ps = <<>>
    /\ nops = 0
    /\ ctor = ""
    /\ args = <<>>
    /\ r = NotCalled
    /\ o = Input(0)
    /\ sp = PyNone
    /\ shape = NoShape
    /\ pc = "cursor"

\* s.advance(): nothing stops a caller at the end of the text
AdvanceAny ==
    /\ i <= Len(s)
    /\ i' = advance(i, 1)
    /\ r' = NotCalled
    /\ pc' = "cursor"
    /\ UNCHANGED <<s, ps, nops, ctor, args, o, sp, lit, shape>>

\* tag(lit)(Input(s, i))
TagCall ==
    /\ pc = "cursor"
    /\ r' = Call(tag(lit), s, i)
    /\ ctor' = "tag"
    /\ pc' = "tag called"
    /\ UNCHANGED <<s, i, ps, nops, args, o, sp, lit, shape>>

\* x, s = r: the parse goes on from the cursor tag returned
TagThen ==
    /\ pc = "tag called"
    /\ Truthy(r)
    /\ i' = r.i
    /\ r' = NotCalled
    /\ pc' = "cursor"
    /\ UNCHANGED <<s, ps, nops, ctor, args, o, sp, lit, shape>>

NextTag == AdvanceAny \/ TagCall \/ TagThen

SpecTag == InitTag /\ [][NextTag]_vars

-----------------------------------------------------------------------------
(* p_E[S] on a text made of elements E and separators S *)

\* a str operand, before parser() coerces it
StrOperand(m) == Node("str", m, "", <<>>)

InitSep ==
    /\ s = <<>>
    /\ i = 0
    /\ ps = <<>>
    /\ nops = 0
    /\ ctor = ""
    /\ args = <<>>
    /\ r = NotCalled
    /\ o = Input(0)
    /\ sp = PyNone
    /\ lit = <<>>
    /\ \E E \in Texts(MaxLit) \ {<<>>} : \E S \in Texts(MaxLit) \ {<<>>} :
        shape = [E |-> E, S |-> S, k |-> 0, trailing |-> FALSE]
    /\ pc = "text"

\* the text gets one more element
AppendElem ==
    /\ pc = "text"
    /\ shape.k < MaxK
    /\ shape.k = 0 \/ shape.trailing
    /\ s' = s \o shape.E
    /\ shape' = [shape EXCEPT !.k = @ + 1, !.trailing = FALSE]
    /\ UNCHANGED <<i, ps, nops, ctor, args, r, o, sp, lit, pc>>

\* the text gets a separator after its last element
AppendSep ==
    /\ pc = "text"
    /\ shape.k >= 1
    /\ ~shape.trailing
    /\ s' = s \o shape.S
    /\ shape' = [shape EXCEPT !.trailing = TRUE]
    /\ UNCHANGED <<i, ps, nops, ctor, args, r, o, sp, lit, pc>>

\* tag(E)[S](Input(s, 0))
SepCall ==
    /\ pc = "text"
    /\ ps' = <<__getitem__(tag(shape.E), StrOperand(shape.S))>>
    /\ ctor' = "__getitem__"
    /\ args' = <<tag(shape.E), StrOperand(shape.S)>>
    /\ r' = Call(__getitem__(tag(shape.E), StrOperand(shape.S)), s, i)
    /\ pc' = "sep called"
    /\ UNCHANGED <<s, i, nops, o, sp, lit, shape>>

NextSep == AppendElem \/ AppendSep \/ SepCall

SpecSep == InitSep /\ [][NextSep]_vars

-----------------------------------------------------------------------------
(* Properties *)

Called == pc = "called"

\* the outcome of the first of kids[n..] that does not succeed, each called
\* at the cursor its predecessor returned; a success when all succeed
RECURSIVE Threaded(_, _, _, _)
Threaded(kids, n, text, a) ==
    IF n > Len(kids) THEN Ok(PyNone, a)
    ELSE LET x == Call(kids[n], text, a)
         IN  IF Truthy(x) THEN Threaded(kids, n + 1, text, x.i) ELSE x

\* p returns, a success or a failure, on every cursor of the text
Returns(p) == \A a \in 0..Len(s) : ~Aborts(Call(p, s, a))

\* C1: a + b returns a's result when a succeeds; when a fails it returns
\* what b returns from the original cursor; it fails only when both fail.
C1_AlternativePriority ==
    Called /\ ctor = "__add__" =>
        LET ra == Call(args[1], s, i)
            rb == Call(parser(args[2]), s, i)
        IN  /\ Truthy(ra) => r = ra
            /\ Falsy(ra) => r = rb
            /\ Falsy(r) <=> (Falsy(ra) /\ Falsy(rb))

\* a = one.pred(f): one consumed a character, f refused it, b succeeded
C1_Witness ==
    /\ Called /\ ctor = "__add__"
    /\ args[1].op = "pred"
    /\ Truthy(Call(args[1].kids[1], s, i))
    /\ Falsy(Call(args[1], s, i))
    /\ Truthy(r) /\ r.i > i

\* C2: when an element of seq(p1..pn) or p ** n fails on the cursor threaded
\* from its predecessor, the sequence returns the failure result None.
C2_SeqAllOrNothing ==
    Called /\ ctor \in {"seq", "__pow__"} =>
        (Falsy(Threaded(Top.kids, 1, s, i)) => r = RNone)

StartOf(x) == x.i
EndOf(x) == IF x.t = "Span" THEN x.j ELSE x.i

\* C3: Input.span(o) and Span.span(o) return the span from the least start
\* to the greatest end, a cursor being the empty range at its offset; so
\* start <= end.
C3_SpanMerge ==
    pc = "spanned" =>
        /\ sp = Span(Min(StartOf(args[1]), StartOf(args[2])),
                     Max(EndOf(args[1]), EndOf(args[2])))
        /\ sp.i <= sp.j

Advances(p) ==
    \A a \in i..Len(s) : LET x == Call(p, s, a) IN Truthy(x) => x.i > a

\* every round p then q that succeeds from cursor i on consumes something
RoundAdvances(p, q) ==
    \A a \in i..Len(s) :
        LET x == Call(p, s, a)
        IN  Truthy(x) => LET y == Call(q, s, x.i) IN Truthy(y) => y.i > a

Repeat(v, n) == [m \in 1..n |-> v]

\* C5: on k elements E separated by S, tag(E)[S] returns k values, and k
\* separators when a last S follows, k - 1 when none does; the cursor is at
\* the end of the text.
C5_SeparatedListShape ==
    pc = "sep called" =>
        r = Ok(PyTuple(<<PyList(Repeat(PyStr(shape.E), shape.k)),
                         PyList(Repeat(PyStr(shape.S),
                                       IF shape.trailing THEN shape.k
                                       ELSE shape.k - 1))>>),
               Len(s))

\* three elements and a trailing separator
C5_Witness ==
    /\ pc = "sep called"
    /\ shape.k = 3 /\ shape.trailing
    /\ shape.E # shape.S
    /\ Truthy(r) /\ Len(r.v.xs[2].xs) = 3

\* C6: a call leaves the cursor it is given as it was, and a success
\* returns a cursor over the same text, at or after the cursor given and
\* within the text.
C6_CursorMonotone ==
    [][pc' = "called" =>
        /\ s' = s /\ i' = i
        /\ Truthy(r') => i <= r'.i /\ r'.i <= Len(s)]_vars

\* a composite parser consumed the text to its end
C6_Witness ==
    /\ Called /\ ctor = "seqspanned"
    /\ Truthy(r) /\ i + 2 <= r.i /\ r.i = Len(s)

\* C7: p.negate() succeeds, with None and the cursor given, exactly when p
\* fails, and fails exactly when p succeeds; p.negate().negate() succeeds
\* exactly when p does.
C7_NegationDuality ==
    Called /\ ctor = "negate" =>
        LET rp == Call(args[1], s, i)
        IN  /\ Truthy(r) <=> Falsy(rp)
            /\ Truthy(r) => r = Ok(PyNone, i)
            /\ Falsy(r) <=> Truthy(rp)
            /\ args[1].op = "negate" =>
                 (Truthy(r) <=> Truthy(Call(args[1].kids[1], s, i)))

\* a double negation succeeded
C7_Witness ==
    /\ Called /\ ctor = "negate"
    /\ args[1].op = "negate"
    /\ Truthy(r)

\* the text at offset a starts with m
StartsWith(text, a, m) ==
    \A n \in 1..Len(m) : a + n <= Len(text) /\ text[a + n] = m[n]

\* C8: tag(L) succeeds, with L and the cursor len(L) further, exactly when
\* the text at the cursor starts with L; otherwise it fails.
C8_TagExact ==
    pc = "tag called" =>
        r = IF StartsWith(s, i, lit) THEN Ok(PyStr(lit), i + Len(lit)) ELSE RNone

\* the text ends inside a literal it had begun to match
C8_Witness ==
    /\ pc = "tag called"
    /\ i < Len(s) /\ Len(s) - i < Len(lit)
    /\ s[i + 1] = lit[1]
    /\ r = RNone

\* C9: many1(p) succeeds exactly when many0(p) returns a non-empty list,
\* and then returns what many0(p) returns; when p fails at once many0(p)
\* returns the empty list and the original cursor and many1(p) fails.
C9_Many1 ==
    Called /\ ctor = "many1" =>
        LET r0 == Call(many0(args[1]), s, i)
        IN  /\ Truthy(r) <=> (Truthy(r0) /\ Len(r0.v.xs) > 0)
            /\ Truthy(r) => r = r0
            /\ Falsy(Call(args[1], s, i)) => r0 = Ok(PyList(<<>>), i) /\ Falsy(r)

\* many1 collected two values
C9_Witness ==
    /\ Called /\ ctor = "many1"
    /\ Truthy(r) /\ Len(r.v.xs) = 2

\* each element trimmed of leading and trailing whitespace
Trimmed(elems) == [n \in 1..Len(elems) |-> __pos__(__neg__(parser(elems[n])))]

\* C10 as stated: seqws(p1..pn) returns on every input what seq returns on
\* the elements each trimmed on both sides.
C10_SeqWsAsSeq ==
    Called /\ ctor = "seqws" => r = Call(seq(Trimmed(args)), s, i)

\* C10, amended: for n >= 1, seqws(p1..pn) returns on every input what seq
\* returns on the elements each trimmed on both sides: it fails when an
\* element fails, returns the n-tuple of the values, and leaves the cursor
\* after the trailing whitespace.
C10_SeqWsAsSeqNonEmpty ==
    Called /\ ctor = "seqws" /\ Len(args) >= 1 =>
        /\ r = Call(seq(Trimmed(args)), s, i)
        /\ r = RNone \/ ~Falsy(Threaded(Trimmed(args), 1, s, i))
        /\ Truthy(r) =>
             /\ r.v.t = "tuple" /\ Len(r.v.xs) = Len(args)
             /\ r.i = Len(s) \/ ~IsSpace(s[r.i + 1])

\* two elements with whitespace between them
C10_Witness ==
    /\ Called /\ ctor = "seqws" /\ Len(args) = 2
    /\ Truthy(r) /\ i = 0 /\ r.i = 3
    /\ ~IsSpace(s[1]) /\ IsSpace(s[2]) /\ ~IsSpace(s[3])

=============================================================================
